---- MODULE Spec2Model ----
(***************************************************************************)
(* Get-PingTimes.py: concurrent ping sampling from two observation points, *)
(* the daily aggregation into the persistent wide table alldata.csv, and   *)
(* the 35-day window exported to csvdata.js.                               *)
(*                                                                         *)
(* A csv cell and every other Python str is a sequence of one-character    *)
(* strings, so that isdigit, replace, float, str, "in" and slicing are     *)
(* computed as Python computes them.  Python's 0-based index k is index    *)
(* k+1 here.                                                               *)
(***************************************************************************)
EXTENDS Integers, Sequences, FiniteSets, TLC

VARIABLES
    \* ---- sampling phase (lines 113-157)
    sites,          \* rows of sites.csv, in file order
    env,            \* what the network answers: host index -> observation point -> transcript kind
    device_host,    \* device['host'], the one dict shared by every task
    tpc,            \* per task: position inside gather_pings
    tsess,          \* per task: the hosts its two sessions were opened to
    tout,           \* per task: the transcripts its two probes returned
    aping,          \* per task: local aping_time
    future,         \* per task: the value its future holds once done
    collected,      \* tasks whose future as_completed has yielded
    ping_results,   \* list ping_results
    ping_defined,   \* FALSE when the sampling phase died before line 126
    results_csv,    \* rows written to results.csv
    spc,            \* position of the main thread in the sampling phase
    \* ---- aggregation and windowing phases (lines 160-229)
    all_csv,        \* alldata.csv on storage: [header, rows]
    header,         \* list header
    data,           \* list data
    pc,             \* position of the main thread in the run
    row_i,          \* index of the next row of the recompute-and-write loop
    agg_error,      \* the except branch of line 194 was taken in this run
    js_window,      \* list data of the windowing phase, after its average loop
    js_file,        \* lines of csvdata.js between the two literal lines
    js_error,       \* the except branch of line 228 was taken in this run
    runs,           \* number of runs started
    pre_csv,        \* alldata.csv as it was when this run started
    wrote           \* alldata.csv was rewritten in this run

samplerVars == <<sites, env, device_host, tpc, tsess, tout, aping, future,
                 collected, results_csv, spc>>
aggVars == <<all_csv, header, data, pc, row_i, agg_error, js_window, js_file,
             js_error, runs, pre_csv, wrote>>
vars == <<samplerVars, ping_results, ping_defined, aggVars>>

----------------------------------------------------------------------------
\* Bounds of the model
MaxHosts == 2
MaxRuns == 2
MaxSamples == 2

\* Program constants
SITE_A_IP == "192.168.1.1"
SITE_B_IP == "192.168.2.1"
PlaceholderHost == "0.0.0.0"
max_workers == 12
WindowDays == 35
WindowHead == 3

\* row[2:] in place of row[4:]: the stored average is one of the numbers
AggDayStartAtAverage == WindowHead - 1

AggDayStart == 4
WindowDayStart == 3

Min(a, b) == IF a < b THEN a ELSE b
Max(a, b) == IF a > b THEN a ELSE b

----------------------------------------------------------------------------
\* Python str and number primitives

DigitChars == <<"0", "1", "2", "3", "4", "5", "6", "7", "8", "9">>

IsDigitChar(c) == \E i \in 1..10 : DigitChars[i] = c

DigitVal(c) == (CHOOSE i \in 1..10 : DigitChars[i] = c) - 1

\* str.isdigit(): non-empty and every character a digit
isdigit(s) == Len(s) > 0 /\ \A i \in 1..Len(s) : IsDigitChar(s[i])

\* index of the first "." of s, 0 when there is none
FirstDot(s) ==
    IF \E i \in 1..Len(s) : s[i] = "."
    THEN CHOOSE i \in 1..Len(s) : s[i] = "." /\ \A j \in 1..(i - 1) : s[j] # "."
    ELSE 0

\* x.replace('.', '', 1)
replace_dot(s) ==
    IF FirstDot(s) = 0 THEN s
    ELSE SubSeq(s, 1, FirstDot(s) - 1) \o SubSeq(s, FirstDot(s) + 1, Len(s))

\* the filter x.replace('.', '', 1).isdigit()
IsNumber(x) == isdigit(replace_dot(x))

RECURSIVE DecValue(_)
DecValue(s) ==
    IF Len(s) = 0 THEN 0
    ELSE 10 * DecValue(SubSeq(s, 1, Len(s) - 1)) + DigitVal(s[Len(s)])

RECURSIVE Pow10(_)
Pow10(k) == IF k = 0 THEN 1 ELSE 10 * Pow10(k - 1)

\* float(x) of a string that passed the filter, as the exact fraction n/d
float(x) ==
    [n |-> DecValue(replace_dot(x)),
     d |-> IF FirstDot(x) = 0 THEN 1 ELSE Pow10(Len(x) - FirstDot(x))]

\* sum(numbers), as a fraction
RECURSIVE sum(_)
sum(numbers) ==
    IF Len(numbers) = 0 THEN [n |-> 0, d |-> 1]
    ELSE LET h == numbers[1]
             t == sum(Tail(numbers))
         IN [n |-> h.n * t.d + t.n * h.d, d |-> h.d * t.d]

\* round(n/d) that rounds every half up
round_half_up(n, d) == (2 * n + d) \div (2 * d)

\* round(n/d) for n >= 0, d > 0: Python 3 rounds halves to the even integer
round(n, d) ==
    LET q == n \div d
        r == n % d
    IN IF 2 * r < d THEN q
       ELSE IF 2 * r > d THEN q + 1
       ELSE IF q % 2 = 0 THEN q ELSE q + 1

\* str(n) of an int n >= 0, as csv.writer and str() write it
RECURSIVE str(_)
str(n) == IF n < 10 THEN <<DigitChars[n + 1]>>
          ELSE str(n \div 10) \o <<DigitChars[(n % 10) + 1]>>

\* needle in s (substring test)
Contains(s, needle) ==
    \E i \in 1..(Len(s) - Len(needle) + 1) :
        SubSeq(s, i, i + Len(needle) - 1) = needle

SiteFlag == <<"s", "i", "t", "e">>
Sentinel == <<"x">>
NoData == <<"N", "/", "A">>
Marker == <<"M">>

\* row[k:] for a 0-based k >= 0
SliceFrom(row, k) == SubSeq(row, k + 1, Len(row))

\* row[:k] for k >= 0
SliceTo(row, k) == SubSeq(row, 1, Min(k, Len(row)))

\* row[-k:] for k > 0
SliceLast(row, k) == SubSeq(row, Max(1, Len(row) - k + 1), Len(row))

\* [float(x) for x in cells if x.replace('.', '', 1).isdigit()]
RECURSIVE Numbers(_)
Numbers(cells) ==
    IF Len(cells) = 0 THEN <<>>
    ELSE (IF IsNumber(cells[1]) THEN <<float(cells[1])>> ELSE <<>>)
         \o Numbers(Tail(cells))

\* round(sum(numbers) / len(numbers)) as the cell the csv holds.  The floats
\* of the model are integers and halves of a few digits, for which Python's
\* float sum and division are exact or correctly rounded away from a tie, so
\* the exact fraction rounds to the same integer.
Average(numbers) == str(round(sum(numbers).n, sum(numbers).d * Len(numbers)))

----------------------------------------------------------------------------
\* DailyAggregator (lines 160-195)

\* MatchRows without the reset of line 181: site_count keeps counting, and a
\* third or later match appends nothing
RECURSIVE MatchRowsNoReset(_, _, _, _)
MatchRowsNoReset(d, result, count, w) ==
    IF w > Len(d) THEN [data |-> d, site_count |-> count, raised |-> FALSE]
    ELSE IF Len(d[w]) = 0 THEN [data |-> d, site_count |-> count, raised |-> TRUE]
    ELSE IF d[w][1] = result.sitename
    THEN IF count + 1 = 1
         THEN MatchRowsNoReset([d EXCEPT ![w] = Append(@, result.ams)], result, 1, w + 1)
         ELSE IF count + 1 = 2
         THEN MatchRowsNoReset([d EXCEPT ![w] = Append(@, result.bms)], result, 2, w + 1)
         ELSE MatchRowsNoReset(d, result, count + 1, w + 1)
    ELSE MatchRowsNoReset(d, result, count, w + 1)

\* MatchRows without the test of line 173: every row takes the value
RECURSIVE MatchRowsAnyRow(_, _, _, _)
MatchRowsAnyRow(d, result, count, w) ==
    IF w > Len(d) THEN [data |-> d, site_count |-> count, raised |-> FALSE]
    ELSE IF Len(d[w]) = 0 THEN [data |-> d, site_count |-> count, raised |-> TRUE]
    ELSE IF count + 1 = 1
    THEN MatchRowsAnyRow([d EXCEPT ![w] = Append(@, result.ams)], result, 1, w + 1)
    ELSE IF count + 1 = 2
    THEN MatchRowsAnyRow([d EXCEPT ![w] = Append(@, result.bms)], result, 0, w + 1)
    ELSE MatchRowsAnyRow(d, result, count + 1, w + 1)

\* MatchRows with the test of line 173 turned round: the rows of the other
\* sites take the value
RECURSIVE MatchRowsOtherSite(_, _, _, _)
MatchRowsOtherSite(d, result, count, w) ==
    IF w > Len(d) THEN [data |-> d, site_count |-> count, raised |-> FALSE]
    ELSE IF Len(d[w]) = 0 THEN [data |-> d, site_count |-> count, raised |-> TRUE]
    ELSE IF d[w][1] # result.sitename
    THEN IF count + 1 = 1
         THEN MatchRowsOtherSite([d EXCEPT ![w] = Append(@, result.ams)], result, 1, w + 1)
         ELSE IF count + 1 = 2
         THEN MatchRowsOtherSite([d EXCEPT ![w] = Append(@, result.bms)], result, 0, w + 1)
         ELSE MatchRowsOtherSite(d, result, count + 1, w + 1)
    ELSE MatchRowsOtherSite(d, result, count, w + 1)

\* The inner loop "for row in data" of lines 172-181 for one result, from row
\* w on.  raised: row[0] of an empty row is an IndexError.
RECURSIVE MatchRows(_, _, _, _)
MatchRows(d, result, count, w) ==
    IF w > Len(d) THEN [data |-> d, site_count |-> count, raised |-> FALSE]
    ELSE IF Len(d[w]) = 0 THEN [data |-> d, site_count |-> count, raised |-> TRUE]
    ELSE IF d[w][1] = result.sitename
    THEN IF count + 1 = 1
         THEN MatchRows([d EXCEPT ![w] = Append(@, result.ams)], result, 1, w + 1)
         ELSE IF count + 1 = 2
         THEN MatchRows([d EXCEPT ![w] = Append(@, result.bms)], result, 0, w + 1)
         ELSE MatchRows(d, result, count + 1, w + 1)
    ELSE MatchRows(d, result, count, w + 1)

\* The outer loop "for result in ping_results" of lines 171-181, from result r on
RECURSIVE MatchLoop(_, _, _, _)
MatchLoop(d, results, count, r) ==
    IF r > Len(results) THEN [data |-> d, site_count |-> count, raised |-> FALSE]
    ELSE LET m == MatchRows(d, results[r], count, 1)
         IN IF m.raised THEN m
            ELSE MatchLoop(m.data, results, m.site_count, r + 1)

\* line 184
AggNumbers(row) == Numbers(SliceFrom(row, AggDayStart))

\* lines 184-189 raise an IndexError: row[0] of an empty row, or the
\* assignment row[2] = 'x' to a row of fewer than three cells
RecomputeRaises(row) ==
    /\ AggNumbers(row) = <<>>
    /\ \/ Len(row) = 0
       \/ ~Contains(row[1], SiteFlag) /\ Len(row) < 3

\* lines 184-189 without the test of line 188: 'x' for every row without a number
RecomputeRowNoFlag(row) ==
    IF AggNumbers(row) # <<>>
    THEN [row EXCEPT ![3] = Average(AggNumbers(row))]
    ELSE [row EXCEPT ![3] = Sentinel]

\* lines 184-189; row[2] holds what csv.writer writes for it
RecomputeRow(row) ==
    IF AggNumbers(row) # <<>> THEN [row EXCEPT ![3] = Average(AggNumbers(row))]
    ELSE IF ~Contains(row[1], SiteFlag) THEN [row EXCEPT ![3] = Sentinel]
    ELSE row

Pad2(n) == IF n < 10 THEN <<"0">> \o str(n) ELSE str(n)

\* datetime.now().strftime('%d-%b-%y') on the k-th day of the history
strftime(k) ==
    Pad2(((k - 1) % 30) + 1)
    \o (IF ((k - 1) \div 30) % 2 = 0 THEN <<"-", "S", "e", "p">> ELSE <<"-", "O", "c", "t">>)
    \o <<"-", "2", "6">>

----------------------------------------------------------------------------
\* WindowProjector and Exporter (lines 198-229)

skip_sites == {<<"S", "I", "T", "E", "C">>, <<"S", "I", "T", "E", "D">>}

\* WindowSlice with a window one day short
WindowSliceShort(row) == SliceTo(row, WindowHead) \o SliceLast(row, WindowDays - 1)

\* lines 204-206: temp1 + temp2
WindowSlice(row) == SliceTo(row, WindowHead) \o SliceLast(row, WindowDays)

\* line 211
WindowNumbers(row) == Numbers(SliceFrom(row, WindowDayStart))

\* lines 208-216 raise an IndexError on this window row
WindowRaises(row) ==
    \/ Len(row) < 2
    \/ /\ row[2] # Marker
       /\ WindowNumbers(row) = <<>>
       /\ ~Contains(row[1], SiteFlag)
       /\ Len(row) < 3

\* lines 210-216 without the test of lines 208-209
WindowRowNoMarker(row) ==
    IF WindowNumbers(row) # <<>>
    THEN [row EXCEPT ![3] = Average(WindowNumbers(row))]
    ELSE IF ~Contains(row[1], SiteFlag) THEN [row EXCEPT ![3] = Sentinel]
    ELSE row

\* lines 208-216 for one window row
WindowRow(row) ==
    IF row[2] = Marker THEN row
    ELSE IF WindowNumbers(row) # <<>>
    THEN [row EXCEPT ![3] = Average(WindowNumbers(row))]
    ELSE IF ~Contains(row[1], SiteFlag) THEN [row EXCEPT ![3] = Sentinel]
    ELSE row

\* ",".join(str(value) for value in row)
RECURSIVE Join(_)
Join(row) ==
    IF Len(row) = 0 THEN <<>>
    ELSE IF Len(row) = 1 THEN row[1]
    ELSE row[1] \o <<",">> \o Join(Tail(row))

\* the export of a script that skips no site
ExportLinesKeepAll(rows) == [i \in 1..Len(rows) |-> Join(rows[i])]

\* lines 220-224: the lines of the rows that are not skipped
RECURSIVE ExportLines(_)
ExportLines(rows) ==
    IF Len(rows) = 0 THEN <<>>
    ELSE (IF rows[1][1] \in skip_sites THEN <<>> ELSE <<Join(rows[1])>>)
         \o ExportLines(Tail(rows))

\* the rows csv.reader yields from alldata.csv, the header first
FileRows(f) == <<f.header>> \o f.rows

----------------------------------------------------------------------------
\* Inputs: the alldata.csv a run may find and the samples a run may collect

SITEA == <<"S", "I", "T", "E", "A">>
SITEB == <<"S", "I", "T", "E", "B">>
SITEC == <<"S", "I", "T", "E", "C">>
GroupRow == <<"T", "1", " ", "s", "i", "t", "e", "s">>

\* days of history of the long table
LongDays == 40

HeaderLabels(days) ==
    <<<<"s", "i", "t", "e", "n", "a", "m", "e">>, <<"t", "i", "e", "r">>,
      <<"a", "v", "e", "r", "a", "g", "e">>>>
    \o [k \in 1..days |-> strftime(k)]

\* one row per site, every site with two days of history
TableUnique ==
    [header |-> HeaderLabels(2),
     rows |-> << <<SITEA, <<"1">>, <<"2", "0">>, <<"1", "0">>, <<"2", "0">>>>,
                 <<SITEB, <<"2">>, <<"8">>, <<"x">>, <<"8">>>> >>]

\* SITEA holds a row per observation point, SITEB a single row
TablePaired ==
    [header |-> HeaderLabels(2),
     rows |-> << <<SITEA, <<"1">>, <<"2", "0">>, <<"1", "0">>, <<"2", "0">>>>,
                 <<SITEA, <<"1">>, <<"4">>, <<"9">>, <<"3", ".", "5">>>>,
                 <<SITEB, <<"2">>, <<"x">>, <<"N", "/", "A">>, <<"x">>>> >>]

\* a blank line in the file: csv.reader yields an empty row for it
TableBlankLine ==
    [header |-> HeaderLabels(2),
     rows |-> << <<SITEA, <<"1">>, <<"2", "0">>, <<"1", "0">>, <<"2", "0">>>>,
                 <<>>,
                 <<SITEB, <<"2">>, <<"8">>, <<"x">>, <<"8">>>> >>]

\* a truncated line: a row of fewer than three cells
TableShortRow ==
    [header |-> HeaderLabels(2),
     rows |-> << <<SITEA, <<"1">>, <<"2", "0">>, <<"1", "0">>, <<"2", "0">>>>,
                 <<SITEC, <<"2">>>>,
                 <<SITEB, <<"2">>, <<"8">>, <<"x">>, <<"8">>>> >>]

LongCycle == <<<<"1", "2">>, <<"1", "4">>, <<"x">>, <<"1", "6">>, <<"N", "/", "A">>, <<"1", "3">>>>

\* the history of a site that was far away in its first days
LongValues(days) ==
    [k \in 1..days |-> IF k <= 4 THEN <<"9", "0", "0">> ELSE LongCycle[(k % 6) + 1]]

\* a long history, with a group row marked 'M' and a decommissioned site
TableLong ==
    [header |-> HeaderLabels(LongDays),
     rows |-> << <<GroupRow, Marker, <<>>>> \o [k \in 1..LongDays |-> <<>>],
                 RecomputeRow(<<SITEA, <<"1">>, <<>>>> \o LongValues(LongDays)),
                 <<SITEC, <<"1">>, <<"x">>>> \o [k \in 1..LongDays |-> Sentinel] >>]

\* a history of exactly the days of one window
TableWindow ==
    [header |-> HeaderLabels(WindowDays),
     rows |-> << RecomputeRow(<<SITEB, <<"2">>, <<>>>> \o LongValues(WindowDays)) >>]

\* a site added by hand with no average yet and no numeric reading, and a
\* group row marked 'M' that carries numeric cells
TableMixed ==
    [header |-> HeaderLabels(2),
     rows |-> << <<SITEB, <<"2">>, <<>>, <<"x">>, <<"N", "/", "A">>>>,
                 RecomputeRow(<<<<"T", "1">>, Marker, <<>>, <<"5">>, <<"7">>>>) >>]

\* a window of days without an answer, then the two readings lo and hi
HalfValues(lo, hi) ==
    [k \in 1..WindowDays |->
        IF k = WindowDays - 1 THEN lo ELSE IF k = WindowDays THEN hi ELSE Sentinel]

\* two sites whose readings average to 12.5 and to 13.5
TableHalves ==
    [header |-> HeaderLabels(WindowDays),
     rows |-> << RecomputeRow(<<SITEA, <<"1">>, <<>>>> \o HalfValues(<<"1", "2">>, <<"1", "3">>)),
                 RecomputeRow(<<SITEB, <<"2">>, <<>>>> \o HalfValues(<<"1", "3">>, <<"1", "4">>)) >>]

Tables == {TableUnique, TablePaired, TableBlankLine, TableShortRow, TableLong, TableWindow,
           TableMixed, TableHalves}

\* merged records the sampling phase can leave in ping_results
SampleA == [ip |-> "10.0.0.1", ams |-> <<"1", "2">>, bms |-> <<"3", "1">>,
            tier |-> "1", sitename |-> SITEA, sitecode |-> "AAA"]
SampleB == [ip |-> "10.0.0.2", ams |-> <<"x">>, bms |-> <<"1", "4">>,
            tier |-> "2", sitename |-> SITEB, sitecode |-> "BBB"]
SampleA2 == [ip |-> "10.0.0.3", ams |-> <<"N", "/", "A">>, bms |-> <<"7">>,
             tier |-> "1", sitename |-> SITEA, sitecode |-> "AAA"]

SampleUniverse == {SampleA, SampleB, SampleA2}

\* every list of distinct samples of at most MaxSamples records, in every order
SampleLists ==
    UNION {{q \in [1..n -> SampleUniverse] : \A i, j \in 1..n : i # j => q[i] # q[j]}
           : n \in 0..MaxSamples}

----------------------------------------------------------------------------
\* The run over the persistent table: one run of lines 159-229 after another

\* number of day labels of a header
DayCount(h) == Len(h) - WindowHead

SamplerIdle ==
    /\ sites = <<>>
    /\ env = <<>>
    /\ device_host = PlaceholderHost
    /\ tpc = <<>>
    /\ tsess = <<>>
    /\ tout = <<>>
    /\ aping = <<>>
    /\ future = <<>>
    /\ collected = {}
    /\ results_csv = <<>>
    /\ spc = "off"

Init ==
    /\ SamplerIdle
    /\ ping_results = <<>>
    /\ ping_defined = FALSE
    /\ all_csv \in Tables
    /\ header = <<>>
    /\ data = <<>>
    /\ pc = "idle"
    /\ row_i = 0
    /\ agg_error = FALSE
    /\ js_window = <<>>
    /\ js_file = <<>>
    /\ js_error = FALSE
    /\ runs = 0
    /\ pre_csv = all_csv
    /\ wrote = FALSE

\* The sampling phase of a run (lines 113-157) as the aggregation sees it: it
\* leaves a list of merged records, in the order the tasks completed, or dies
\* before ping_results exists (sites.csv cannot be read).  SpecSampler below
\* is that phase step by step.
StartRun ==
    /\ pc \in {"idle", "done"}
    /\ runs < MaxRuns
    /\ \/ /\ ping_defined' = TRUE
          /\ ping_results' \in SampleLists
       \/ /\ ping_defined' = FALSE
          /\ ping_results' = <<>>
    /\ runs' = runs + 1
    /\ pc' = "load"
    /\ pre_csv' = all_csv
    /\ wrote' = FALSE
    /\ agg_error' = FALSE
    /\ js_error' = FALSE
    /\ header' = <<>>
    /\ data' = <<>>
    /\ js_window' = <<>>
    /\ row_i' = 0
    /\ UNCHANGED <<samplerVars, all_csv, js_file>>

\* AggLoad without line 166: the header gets no label for today
AggLoadNoLabel ==
    /\ pc = "load"
    /\ header' = all_csv.header
    /\ data' = all_csv.rows
    /\ pc' = "match"
    /\ UNCHANGED <<samplerVars, ping_results, ping_defined, all_csv, row_i, agg_error,
                   js_window, js_file, js_error, runs, pre_csv, wrote>>

\* lines 162-170: read the file, append today's label to the header
AggLoad ==
    /\ pc = "load"
    /\ header' = Append(all_csv.header, strftime(DayCount(all_csv.header) + 1))
    /\ data' = all_csv.rows
    /\ pc' = "match"
    /\ UNCHANGED <<samplerVars, ping_results, ping_defined, all_csv, row_i, agg_error,
                   js_window, js_file, js_error, runs, pre_csv, wrote>>

\* AggMatch without the except of line 194: the error ends the script
AggMatchUncaught ==
    /\ pc = "match"
    /\ LET m == MatchLoop(data, ping_results, 0, 1)
       IN IF ~ping_defined \/ m.raised
          THEN /\ agg_error' = TRUE
               /\ pc' = "crashed"
               /\ data' = IF ping_defined THEN m.data ELSE data
               /\ row_i' = row_i
          ELSE /\ data' = m.data
               /\ row_i' = 1
               /\ pc' = "recompute"
               /\ agg_error' = agg_error
    /\ UNCHANGED <<samplerVars, ping_results, ping_defined, all_csv, header,
                   js_window, js_file, js_error, runs, pre_csv, wrote>>

\* lines 170-181: the matching loop; a NameError (ping_results undefined) or
\* an IndexError leaves the phase through the except of line 194
AggMatch ==
    /\ pc = "match"
    /\ LET m == MatchLoop(data, ping_results, 0, 1)
       IN IF ~ping_defined \/ m.raised
          THEN /\ agg_error' = TRUE
               /\ pc' = "window"
               /\ data' = IF ping_defined THEN m.data ELSE data
               /\ row_i' = row_i
          ELSE /\ data' = m.data
               /\ row_i' = 1
               /\ pc' = "recompute"
               /\ agg_error' = agg_error
    /\ UNCHANGED <<samplerVars, ping_results, ping_defined, all_csv, header,
                   js_window, js_file, js_error, runs, pre_csv, wrote>>

\* lines 182-193: one iteration of "for row in data": recompute the row's
\* average, then rewrite the whole file
AggRow ==
    /\ pc = "recompute"
    /\ row_i <= Len(data)
    /\ IF RecomputeRaises(data[row_i])
       THEN /\ agg_error' = TRUE
            /\ pc' = "window"
            /\ UNCHANGED <<data, all_csv, wrote, row_i>>
       ELSE /\ data' = [data EXCEPT ![row_i] = RecomputeRow(@)]
            /\ all_csv' = [header |-> header, rows |-> data']
            /\ wrote' = TRUE
            /\ row_i' = row_i + 1
            /\ UNCHANGED <<agg_error, pc>>
    /\ UNCHANGED <<samplerVars, ping_results, ping_defined, header,
                   js_window, js_file, js_error, runs, pre_csv>>

\* line 182: the loop is exhausted, the phase ends
AggEnd ==
    /\ pc = "recompute"
    /\ row_i > Len(data)
    /\ pc' = "window"
    /\ UNCHANGED <<samplerVars, ping_results, ping_defined, all_csv, header, data, row_i,
                   agg_error, js_window, js_file, js_error, runs, pre_csv, wrote>>

\* lines 198-229: slice every row of the file, recompute the window
\* averages, write csvdata.js; an IndexError leaves csvdata.js as it was
Window ==
    /\ pc = "window"
    /\ LET sliced == [i \in 1..Len(FileRows(all_csv)) |-> WindowSlice(FileRows(all_csv)[i])]
       IN IF \E i \in 1..Len(sliced) : WindowRaises(sliced[i])
          THEN /\ js_error' = TRUE
               /\ js_window' = <<>>
               /\ js_file' = js_file
          ELSE /\ js_window' = [i \in 1..Len(sliced) |-> WindowRow(sliced[i])]
               /\ js_file' = ExportLines(js_window')
               /\ js_error' = js_error
    /\ pc' = "done"
    /\ UNCHANGED <<samplerVars, ping_results, ping_defined, all_csv, header, data, row_i,
                   agg_error, runs, pre_csv, wrote>>

Next == StartRun \/ AggLoad \/ AggMatch \/ AggRow \/ AggEnd \/ Window

Spec == Init /\ [][Next]_vars

----------------------------------------------------------------------------
\* Sampler, SiteMerger and the run output (lines 50-157)

\* A transcript is the list of lines send_command returned.  Of a line the
\* parser reads only: whether it holds "Success rate is 0" (rate0), whether it
\* holds "Success rate is" (rate), and line.split(" ")[9].split("/"), which is
\* fields (<<>> when the line has no tenth word).
OtherLine == [kind |-> "other", fields |-> <<>>]
ZeroLine == [kind |-> "rate0", fields |-> <<>>]
RateLine(avg) == [kind |-> "rate", fields |-> <<<<"1">>, avg, <<"4">>>>]
CutLine == [kind |-> "rate", fields |-> <<>>]

\* lines 70-80 (and 88-98): the loop over the lines, from line i on
RECURSIVE ParsePing(_, _, _)
ParsePing(lines, i, time) ==
    IF i > Len(lines) THEN time
    ELSE IF lines[i].kind = "rate0" THEN ParsePing(lines, i + 1, Sentinel)
    ELSE IF lines[i].kind = "rate"
    THEN IF Len(lines[i].fields) >= 2 THEN lines[i].fields[2] ELSE NoData
    ELSE ParsePing(lines, i + 1, time)

\* the answer of the network to a probe of host t through a session to via
Latency(t, via) == str(10 * t + (IF via = SITE_A_IP THEN 2 ELSE 4))

Transcript(kind, t, via) ==
    CASE kind = "ok" -> <<OtherLine, RateLine(Latency(t, via))>>
      [] kind = "zero" -> <<OtherLine, ZeroLine>>
      [] kind = "cut" -> <<OtherLine, CutLine>>
      [] OTHER -> <<OtherLine>>

Points == {SITE_A_IP, SITE_B_IP}

\* how one host answers through each observation point
Profiles ==
    {[p \in Points |-> "ok"],
     [p \in Points |-> IF p = SITE_A_IP THEN "raise" ELSE "ok"],
     [p \in Points |-> IF p = SITE_A_IP THEN "zero" ELSE "cut"],
     [p \in Points |-> IF p = SITE_A_IP THEN "none" ELSE "raise"]}

SiteNames == <<SITEA, SITEB, SITEC, <<"S", "I", "T", "E", "D">>>>
SiteIps == <<"10.0.0.1", "10.0.0.2", "10.0.0.3", "10.0.0.4">>
SiteCodes == <<"AAA", "BBB", "CCC", "DDD">>

SiteRow(i) == [ip |-> SiteIps[i], sitename |-> SiteNames[i],
               sitecode |-> SiteCodes[i], tier |-> IF i = 1 THEN "1" ELSE "2"]

\* the sites.csv files of the model: 1..MaxHosts sites with distinct
\* addresses, and one file whose two sites share an address
SiteFiles ==
    {[i \in 1..n |-> SiteRow(i)] : n \in 1..MaxHosts}
    \cup {<<SiteRow(1), [SiteRow(2) EXCEPT !.ip = SiteIps[1]]>>}

Tasks == 1..Len(sites)

Running == {t \in Tasks : tpc[t] \in {"connA", "setB", "connB"}}

AggIdle ==
    /\ all_csv = TableUnique
    /\ header = <<>>
    /\ data = <<>>
    /\ pc = "off"
    /\ row_i = 0
    /\ agg_error = FALSE
    /\ js_window = <<>>
    /\ js_file = <<>>
    /\ js_error = FALSE
    /\ runs = 0
    /\ pre_csv = all_csv
    /\ wrote = FALSE

\* lines 116-129: the sites are read and one task per address is submitted
InitSampler ==
    /\ AggIdle
    /\ sites \in SiteFiles
    /\ env \in [1..Len(sites) -> Profiles]
    /\ device_host = PlaceholderHost
    /\ tpc = [t \in 1..Len(sites) |-> "setA"]
    /\ tsess = [t \in 1..Len(sites) |-> [a |-> "", b |-> ""]]
    /\ tout = [t \in 1..Len(sites) |-> [a |-> "", b |-> ""]]
    /\ aping = [t \in 1..Len(sites) |-> NoData]
    /\ future = [t \in 1..Len(sites) |-> <<>>]
    /\ collected = {}
    /\ ping_results = <<>>
    /\ ping_defined = TRUE
    /\ results_csv = <<>>
    /\ spc = "pool"

\* FailureRecord that keeps what the first probe had measured
FailureRecordKeepsA(t) == [ip |-> sites[t].ip, ams |-> aping[t], bms |-> Sentinel]

\* lines 104-110: the record of a task whose transport raised
FailureRecord(t) == [ip |-> sites[t].ip, ams |-> Sentinel, bms |-> Sentinel]

\* line 63, in a free worker of the pool
SetHostA(t) ==
    /\ tpc[t] = "setA"
    /\ Cardinality(Running) < max_workers
    /\ device_host' = SITE_A_IP
    /\ tpc' = [tpc EXCEPT ![t] = "connA"]
    /\ UNCHANGED <<sites, env, tsess, tout, aping, future, collected, results_csv, spc,
                   ping_results, ping_defined, aggVars>>

\* lines 64-80: the session is opened to the host the shared dict names now
ProbeA(t) ==
    /\ tpc[t] = "connA"
    /\ tsess' = [tsess EXCEPT ![t].a = device_host]
    /\ tout' = [tout EXCEPT ![t].a = env[t][device_host]]
    /\ IF env[t][device_host] = "raise"
       THEN /\ future' = [future EXCEPT ![t] = FailureRecord(t)]
            /\ tpc' = [tpc EXCEPT ![t] = "done"]
            /\ aping' = aping
       ELSE /\ aping' = [aping EXCEPT ![t] =
                            ParsePing(Transcript(env[t][device_host], t, device_host), 1, NoData)]
            /\ tpc' = [tpc EXCEPT ![t] = "setB"]
            /\ future' = future
    /\ UNCHANGED <<sites, env, device_host, collected, results_csv, spc,
                   ping_results, ping_defined, aggVars>>

\* line 81
SetHostB(t) ==
    /\ tpc[t] = "setB"
    /\ device_host' = SITE_B_IP
    /\ tpc' = [tpc EXCEPT ![t] = "connB"]
    /\ UNCHANGED <<sites, env, tsess, tout, aping, future, collected, results_csv, spc,
                   ping_results, ping_defined, aggVars>>

\* lines 82-103
ProbeB(t) ==
    /\ tpc[t] = "connB"
    /\ tsess' = [tsess EXCEPT ![t].b = device_host]
    /\ tout' = [tout EXCEPT ![t].b = env[t][device_host]]
    /\ future' = [future EXCEPT ![t] =
          IF env[t][device_host] = "raise" THEN FailureRecord(t)
          ELSE [ip |-> sites[t].ip, ams |-> aping[t],
                bms |-> ParsePing(Transcript(env[t][device_host], t, device_host), 1, NoData)]]
    /\ tpc' = [tpc EXCEPT ![t] = "done"]
    /\ UNCHANGED <<sites, env, device_host, aping, collected, results_csv, spc,
                   ping_results, ping_defined, aggVars>>

\* lines 130-136: as_completed yields a finished future
Collect(t) ==
    /\ spc = "pool"
    /\ tpc[t] = "done"
    /\ t \notin collected
    /\ ping_results' = Append(ping_results, future[t])
    /\ collected' = collected \cup {t}
    /\ UNCHANGED <<sites, env, device_host, tpc, tsess, tout, aping, future, results_csv,
                   spc, ping_defined, aggVars>>

\* lines 141-144 for one site and one result
MergeOne(site, result) ==
    IF result.ip = site.ip
    THEN [ip |-> result.ip, ams |-> result.ams, bms |-> result.bms,
          tier |-> site.tier, sitename |-> site.sitename, sitecode |-> site.sitecode]
    ELSE result

\* a merge by position: result r takes the identity of site r
MergeLoopByPosition(sts, results, s) ==
    [r \in 1..Len(results) |->
        [ip |-> results[r].ip, ams |-> results[r].ams, bms |-> results[r].bms,
         tier |-> sts[r].tier, sitename |-> sts[r].sitename, sitecode |-> sts[r].sitecode]]

\* lines 139-144, from site s on
RECURSIVE MergeLoop(_, _, _)
MergeLoop(sts, results, s) ==
    IF s > Len(sts) THEN results
    ELSE MergeLoop(sts, [r \in 1..Len(results) |-> MergeOne(sts[s], results[r])], s + 1)

\* lines 137-146, once the pool has shut down
Merge ==
    /\ spc = "pool"
    /\ collected = Tasks
    /\ ping_results' = MergeLoop(sites, ping_results, 1)
    /\ spc' = "output"
    /\ UNCHANGED <<sites, env, device_host, tpc, tsess, tout, aping, future, collected,
                   results_csv, ping_defined, aggVars>>

\* line 153: the row of results.csv of one result
OutputRow(result) ==
    <<result.tier, result.sitename, result.sitecode, result.ip, result.ams, result.bms>>

\* lines 149-155
WriteOutput ==
    /\ spc = "output"
    /\ results_csv' = [r \in 1..Len(ping_results) |-> OutputRow(ping_results[r])]
    /\ spc' = "done"
    /\ UNCHANGED <<sites, env, device_host, tpc, tsess, tout, aping, future, collected,
                   ping_results, ping_defined, aggVars>>

NextSampler ==
    \/ \E t \in Tasks : SetHostA(t)
    \/ \E t \in Tasks : ProbeA(t)
    \/ \E t \in Tasks : SetHostB(t)
    \/ \E t \in Tasks : ProbeB(t)
    \/ \E t \in Tasks : Collect(t)
    \/ Merge
    \/ WriteOutput

SpecSampler == InitSampler /\ [][NextSampler]_vars

----------------------------------------------------------------------------
\* Vocabulary of the properties

\* the aggregation phase of the current run has ended
AggEnded == pc = "window"

\* the windowing phase of the current run has ended without an error
WindowDone == pc = "done" /\ ~js_error

Rows == 1..Len(all_csv.rows)

\* the row has a site name, a tier-or-marker and an average cell
WellFormed(row) == Len(row) >= WindowHead

\* header and rows have the same number of columns
Aligned(f) == \A i \in 1..Len(f.rows) : Len(f.rows[i]) = Len(f.header)

\* the results of the run that carry the site name of row i of the table
Matching(i) ==
    IF Len(pre_csv.rows[i]) = 0 THEN {}
    ELSE {r \in 1..Len(ping_results) : ping_results[r].sitename = pre_csv.rows[i][1]}

\* the number of cells row i gained in the current run
Growth(i) == Len(all_csv.rows[i]) - Len(pre_csv.rows[i])

\* the rows of the table with the site name of row i
SameSite(i) == {w \in Rows : Len(pre_csv.rows[w]) > 0 /\ pre_csv.rows[w][1] = pre_csv.rows[i][1]}

\* position of x in the set S of numbers, counted from 1
Rank(S, x) == Cardinality({y \in S : y <= x})

\* every order of the list q
Orders(q) ==
    {[k \in 1..Len(q) |-> q[f[k]]] :
        f \in {g \in [1..Len(q) -> 1..Len(q)] : \A a, b \in 1..Len(q) : a # b => g[a] # g[b]}}

\* lines 182-189 applied to every row of a table none of whose rows raises
RecomputeAll(d) == [i \in 1..Len(d) |-> RecomputeRow(d[i])]

----------------------------------------------------------------------------
\* C1 (as stated): after an aggregation run every row has gained 0 or 2
\* day-columns, never 1.
C1_StrictPairing ==
    (AggEnded /\ ~agg_error) => \A i \in Rows : Growth(i) \in {0, 2}

\* C1 (amended): after an aggregation run that rewrote the table, every row
\* has gained as many day-columns as the run has samples carrying the row's
\* site name (0 for an unsampled site, 1 for a site sampled once, 2 for a
\* site sampled twice); a run that ends before its first rewrite leaves
\* every row as it was.
C1_GrowthIsMatchCount ==
    AggEnded =>
        \A i \in Rows : Growth(i) = IF wrote THEN Cardinality(Matching(i)) ELSE 0

C1_Witness ==
    /\ AggEnded
    /\ wrote
    /\ ~agg_error
    /\ \E i \in Rows : Growth(i) = 1 /\ Cardinality(Matching(i)) = 1

\* C2 (as stated): a table whose rows all have the header's column count
\* still has that property after an aggregation run.
C2_LockStep ==
    (AggEnded /\ Aligned(pre_csv)) => Aligned(all_csv)

\* C2 (amended): a run that rewrites an aligned table appends one label to
\* the header, and a row still has the header's column count after the run
\* exactly when one sample of the run carries the row's site name.
C2_LockStepIffSampledOnce ==
    (AggEnded /\ wrote /\ Aligned(pre_csv)) =>
        /\ Len(all_csv.header) = Len(pre_csv.header) + 1
        /\ \A i \in Rows :
              (Len(all_csv.rows[i]) = Len(all_csv.header)) <=> (Cardinality(Matching(i)) = 1)

C2_Witness ==
    /\ AggEnded
    /\ wrote
    /\ runs = 2
    /\ Aligned(pre_csv)
    /\ Aligned(all_csv)
    /\ DayCount(all_csv.header) = 4

\* C3: the updated table is the same for every order of the collected
\* results.
C3_OrderIndependent ==
    (AggEnded /\ wrote /\ ~agg_error) =>
        \A q \in Orders(ping_results) :
            RecomputeAll(MatchLoop(pre_csv.rows, q, 0, 1).data) = all_csv.rows

\* C4: the first match of a site appends the A value of the matching
\* result and the second match of the same site its B value, whatever the
\* matches of other sites are.  The matches of a site are counted in
\* encounter order: result by result, and row by row within a result.
C4_PerSiteEncounterOrder ==
    (AggEnded /\ wrote /\ ~agg_error) =>
        \A i \in Rows : \A r \in Matching(i) :
            LET ordinal == (Rank(Matching(i), r) - 1) * Cardinality(SameSite(i))
                           + Rank(SameSite(i), i)
                cell == Len(pre_csv.rows[i]) + Rank(Matching(i), r)
            IN /\ cell <= Len(all_csv.rows[i])
               /\ ordinal = 1 => all_csv.rows[i][cell] = ping_results[r].ams
               /\ ordinal = 2 => all_csv.rows[i][cell] = ping_results[r].bms

\* C5: every task opens its first session to observation point A and its
\* second session to observation point B.
C5_OwnSessions ==
    \A t \in Tasks :
        /\ tsess[t].a # "" => tsess[t].a = SITE_A_IP
        /\ tsess[t].b # "" => tsess[t].b = SITE_B_IP

\* C6: after an aggregation run, the average cell of every row that has a
\* numeric day value is the rounded mean of the numeric values of all its
\* day-columns, the cells after the average cell.
C6_AverageCoversAllDays ==
    (AggEnded /\ wrote /\ ~agg_error) =>
        \A i \in Rows :
            LET days == Numbers(SliceFrom(all_csv.rows[i], 3))
            IN days # <<>> => all_csv.rows[i][3] = Average(days)

\* C7: every table an aggregation run stores has, in every row, the
\* average the recomputation gives for the row's stored day values.
C7_StoredAveragesFresh ==
    wrote =>
        \A i \in Rows :
            ~RecomputeRaises(all_csv.rows[i]) => RecomputeRow(all_csv.rows[i]) = all_csv.rows[i]

\* C8: a table with a malformed row does not abort the aggregation: the
\* table is stored, the malformed row is unchanged, and every well-formed
\* row has its new values and its recomputed average.
C8_RowIsolation ==
    (AggEnded /\ ping_defined /\ \E i \in Rows : ~WellFormed(pre_csv.rows[i])) =>
        /\ ~agg_error
        /\ wrote
        /\ \A i \in Rows :
              IF WellFormed(pre_csv.rows[i])
              THEN /\ Growth(i) = Cardinality(Matching(i))
                   /\ RecomputeRow(all_csv.rows[i]) = all_csv.rows[i]
              ELSE all_csv.rows[i] = pre_csv.rows[i]

\* C9: the window row of a row with at least 35 day-columns is its first two
\* cells, the window average, and its last 35 cells in order; for a row not
\* marked 'M' the window average is the rounded mean of the numeric cells
\* among those 35 ('x' when there is none and the row is no "site" row).
C9_WindowProjection ==
    WindowDone =>
        \A i \in 1..Len(FileRows(all_csv)) :
            LET row == FileRows(all_csv)[i]
                win == js_window[i]
                last == [k \in 1..WindowDays |-> row[Len(row) - WindowDays + k]]
            IN Len(row) >= 3 + WindowDays =>
                /\ Len(win) = 3 + WindowDays
                /\ win[1] = row[1]
                /\ win[2] = row[2]
                /\ \A k \in 1..WindowDays : win[3 + k] = last[k]
                /\ (row[2] # Marker /\ Numbers(last) # <<>>) => win[3] = Average(Numbers(last))
                /\ (row[2] # Marker /\ Numbers(last) = <<>> /\ ~Contains(row[1], SiteFlag))
                      => win[3] = Sentinel

C9_Witness ==
    /\ WindowDone
    /\ \E i \in 1..Len(FileRows(all_csv)) :
          LET row == FileRows(all_csv)[i]
          IN /\ Len(row) > 3 + WindowDays
             /\ row[2] # Marker
             /\ IsNumber(row[4])
             /\ IsNumber(js_window[i][3])
             /\ js_window[i][3] # row[3]

\* C10: once the pool has finished, ping_results holds one record per
\* submitted host, in some order; the record of a host whose transport
\* raised is ('x', 'x'), every other record holds what the parser reads in
\* the two transcripts of that host's own probes.
C10_OneRecordPerHost ==
    (spc = "pool" /\ collected = Tasks) =>
        /\ Len(ping_results) = Len(sites)
        /\ \E f \in [1..Len(sites) -> Tasks] :
              /\ \A a, b \in 1..Len(sites) : a # b => f[a] # f[b]
              /\ \A k \in 1..Len(sites) :
                    LET t == f[k]
                        rec == ping_results[k]
                    IN /\ rec.ip = sites[t].ip
                       /\ IF tout[t].a = "raise" \/ tout[t].b = "raise"
                          THEN rec.ams = Sentinel /\ rec.bms = Sentinel
                          ELSE /\ rec.ams = ParsePing(Transcript(tout[t].a, t, tsess[t].a), 1, NoData)
                               /\ rec.bms = ParsePing(Transcript(tout[t].b, t, tsess[t].b), 1, NoData)

C10_Witness ==
    /\ spc = "pool"
    /\ collected = Tasks
    /\ Len(sites) = 2
    /\ ping_results[1].ip = sites[2].ip
    /\ ping_results[1].ip # ping_results[2].ip
    /\ tout[2].b = "raise"
    /\ IsNumber(ping_results[2].ams)
    /\ IsNumber(ping_results[2].bms)

\* the positions of the rows of f whose site-name is not decommissioned
KeptRows(f) ==
    {i \in 1..Len(FileRows(f)) :
        ~(Len(FileRows(f)[i]) > 0 /\ FileRows(f)[i][1] \in skip_sites)}

\* the k-th smallest member of a set of positions
Nth(S, k) == CHOOSE x \in S : Rank(S, x) = k

\* C11: the windowing phase leaves alldata.csv as it found it, and the
\* lines it exports are the window rows of exactly the rows of alldata.csv
\* whose site-name is not in skip_sites, one line per row, in the order of
\* the table.
C11_ExportSkipsDecommissioned ==
    [][(pc = "window" /\ pc' = "done") =>
          /\ all_csv' = all_csv
          /\ ~js_error' =>
                /\ Len(js_file') = Cardinality(KeptRows(all_csv))
                /\ \A k \in 1..Len(js_file') :
                      js_file'[k] = Join(js_window'[Nth(KeptRows(all_csv), k)])]_vars

C11_Witness ==
    /\ WindowDone
    /\ wrote
    /\ \E i, j \in Rows :
          /\ i < j
          /\ all_csv.rows[i][1] = SITEC
          /\ all_csv.rows[j][1] = SITEB
          /\ Len(js_file) = Len(all_csv.rows)
          /\ js_file[j] = Join(js_window[j + 1])

\* the day-columns of a row of alldata.csv: the cells after the average
DayColumns(row) == SliceFrom(row, WindowHead)

\* the rows the recomputation loop of the current run has been through
Recomputed == {i \in Rows : i < row_i}

\* C12: after the aggregation phase, a row the recomputation went through
\* and none of whose day values parses as a number holds 'x' as its average
\* if its site-name does not contain "site", and the average it had before
\* the run if its site-name contains it.
C12_NoNumericHistory ==
    AggEnded =>
        \A i \in Recomputed :
            LET row == all_csv.rows[i]
            IN (WellFormed(row) /\ Numbers(DayColumns(row)) = <<>>) =>
                   IF ~Contains(row[1], SiteFlag)
                   THEN row[3] = Sentinel
                   ELSE row[3] = pre_csv.rows[i][3]

C12_Witness ==
    /\ AggEnded
    /\ \E i \in Recomputed :
          /\ WellFormed(all_csv.rows[i])
          /\ Numbers(DayColumns(all_csv.rows[i])) = <<>>
          /\ ~Contains(all_csv.rows[i][1], SiteFlag)
          /\ Growth(i) = 1
          /\ pre_csv.rows[i][3] # Sentinel
          /\ all_csv.rows[i][3] = Sentinel

\* C13: after the aggregation phase, a row whose site-name equals the site
\* name of no sample of the run has the day-columns it had before the run:
\* nothing was appended to it, nothing was changed in it.
C13_UnmatchedRowsUntouched ==
    AggEnded =>
        \A i \in Rows :
            Matching(i) = {} => DayColumns(all_csv.rows[i]) = DayColumns(pre_csv.rows[i])

C13_Witness ==
    /\ AggEnded
    /\ wrote
    /\ ~agg_error
    /\ \E i, j \in Rows :
          /\ Matching(i) = {}
          /\ Len(DayColumns(all_csv.rows[i])) > 0
          /\ Matching(j) # {}
          /\ Growth(j) > 0

\* C14: in the window, a row whose second cell is the marker 'M' holds in
\* its average slot the average stored in alldata.csv, whatever its day
\* values are; every other row has its average slot recomputed from the
\* cells of its window row by the rule of lines 211-216: their rounded mean
\* if one of them is a number, else 'x', unless the site-name contains
\* "site".
C14_MarkerRowsPassThrough ==
    WindowDone =>
        \A i \in 1..Len(FileRows(all_csv)) :
            LET row == FileRows(all_csv)[i]
                win == js_window[i]
                seen == Numbers(SliceFrom(win, WindowDayStart))
            IN WellFormed(row) =>
                   IF row[2] = Marker THEN win[3] = row[3]
                   ELSE IF seen # <<>> THEN win[3] = Average(seen)
                   ELSE IF ~Contains(row[1], SiteFlag) THEN win[3] = Sentinel
                   ELSE win[3] = row[3]

C14_Witness ==
    /\ WindowDone
    /\ \E i, j \in 1..Len(FileRows(all_csv)) :
          LET row == FileRows(all_csv)[i]
              other == FileRows(all_csv)[j]
          IN /\ WellFormed(row)
             /\ row[2] = Marker
             /\ WindowNumbers(js_window[i]) # <<>>
             /\ Average(WindowNumbers(js_window[i])) # row[3]
             /\ js_window[i][3] = row[3]
             /\ WellFormed(other)
             /\ other[2] # Marker
             /\ IsNumber(js_window[j][3])
             /\ js_window[j][3] # other[3]

\* the positions of the aggregation phase
AggPhase == {"load", "match", "recompute"}

\* C15: a run started after a sampling phase that failed or not enters the
\* aggregation phase; a step of the aggregation phase stays in it or starts
\* the windowing phase, and the step in which the aggregation fails starts
\* the windowing phase; the step of the windowing phase, failing or not, is
\* the end of the run.
C15_PhasesAlwaysRun ==
    [][/\ pc \in {"idle", "done"} => pc' = "load"
       /\ pc \in AggPhase => pc' \in AggPhase \cup {"window"}
       /\ (pc \in AggPhase /\ agg_error') => pc' = "window"
       /\ pc = "window" => pc' = "done"]_vars

C15_Witness ==
    /\ pc = "done"
    /\ ~ping_defined
    /\ agg_error
    /\ ~js_error
    /\ Len(js_window) > 1
    /\ runs = MaxRuns

\* C16: applying the recomputation of lines 184-189 once more to a row the
\* run has recomputed and stored, and the recomputation of lines 208-216
\* once more to a row of the window, leaves the row, and so its average, as
\* the first application left it.
C16_RecomputeIdempotent ==
    /\ pc \in {"window", "done"} =>
          \A i \in Recomputed :
              WellFormed(all_csv.rows[i]) => RecomputeRow(all_csv.rows[i]) = all_csv.rows[i]
    /\ WindowDone =>
          \A i \in 1..Len(js_window) :
              WellFormed(js_window[i]) => WindowRow(js_window[i]) = js_window[i]

C16_Witness ==
    /\ WindowDone
    /\ wrote
    /\ ~agg_error
    /\ \E i \in Rows :
          /\ Growth(i) > 0
          /\ IsNumber(all_csv.rows[i][3])
          /\ all_csv.rows[i][3] # pre_csv.rows[i][3]
          /\ IsNumber(js_window[i + 1][3])
          /\ js_window[i + 1][3] # all_csv.rows[i][3]

\* no two sites of sites.csv have the same address
DistinctHosts == \A a, b \in Tasks : a # b => sites[a].ip # sites[b].ip

\* C17: when the sites have distinct addresses, then after the merge and the
\* output, in whatever order the tasks completed, every sample carries the
\* tier, site name and site code of the site that has its address,
\* results.csv holds that sample's row at the sample's position, and every
\* site has as many rows in results.csv as it has samples, which is one.
C17_MergeByHost ==
    (spc = "done" /\ DistinctHosts) =>
        /\ Len(results_csv) = Len(ping_results)
        /\ \A r \in 1..Len(ping_results) :
              \E t \in Tasks :
                  /\ sites[t].ip = ping_results[r].ip
                  /\ ping_results[r].tier = sites[t].tier
                  /\ ping_results[r].sitename = sites[t].sitename
                  /\ ping_results[r].sitecode = sites[t].sitecode
                  /\ results_csv[r] = <<sites[t].tier, sites[t].sitename, sites[t].sitecode,
                                        sites[t].ip, future[t].ams, future[t].bms>>
        /\ \A t \in Tasks :
              /\ Cardinality({r \in 1..Len(results_csv) : results_csv[r][2] = sites[t].sitename})
                    = Cardinality({r \in 1..Len(ping_results) : ping_results[r].ip = sites[t].ip})
              /\ Cardinality({r \in 1..Len(results_csv) : results_csv[r][2] = sites[t].sitename}) = 1

C17_Witness ==
    /\ spc = "done"
    /\ DistinctHosts
    /\ Len(sites) = 2
    /\ ping_results[1].ip = sites[2].ip
    /\ results_csv[1][2] = sites[2].sitename
    /\ results_csv[2][2] = sites[1].sitename
    /\ results_csv[1][5] # results_csv[2][5]

\* the mean of the numbers is an integer plus one half
IsHalf(numbers) ==
    /\ numbers # <<>>
    /\ (2 * sum(numbers).n) % (sum(numbers).d * Len(numbers)) = 0
    /\ sum(numbers).n % (sum(numbers).d * Len(numbers)) # 0

\* the even one of the two integers nearest to a mean that is a half
EvenNeighbour(numbers) ==
    LET below == sum(numbers).n \div (sum(numbers).d * Len(numbers))
    IN IF below % 2 = 0 THEN below ELSE below + 1

\* C18: when the mean of the numbers of a row is exactly halfway between two
\* integers, the average column holds the even one of the two, in the
\* stored table and in the window.
C18_HalfToEven ==
    /\ pc \in {"window", "done"} =>
          \A i \in Recomputed :
              LET row == all_csv.rows[i]
              IN (WellFormed(row) /\ IsHalf(AggNumbers(row))) =>
                     row[3] = str(EvenNeighbour(AggNumbers(row)))
    /\ WindowDone =>
          \A i \in 1..Len(js_window) :
              LET win == js_window[i]
              IN (WellFormed(win) /\ win[2] # Marker /\ IsHalf(WindowNumbers(win))) =>
                     win[3] = str(EvenNeighbour(WindowNumbers(win)))

C18_Witness ==
    /\ WindowDone
    /\ wrote
    /\ \E i, j \in Recomputed :
          /\ IsHalf(AggNumbers(all_csv.rows[i]))
          /\ all_csv.rows[i][3] = <<"1", "2">>
          /\ IsHalf(WindowNumbers(js_window[i + 1]))
          /\ js_window[i + 1][3] = <<"1", "2">>
          /\ IsHalf(AggNumbers(all_csv.rows[j]))
          /\ all_csv.rows[j][3] = <<"1", "4">>
          /\ IsHalf(WindowNumbers(js_window[j + 1]))
          /\ js_window[j + 1][3] = <<"1", "4">>
          /\ Growth(j) > 0

\* C19: after a run whose aggregation ended without an error, for a row of
\* alldata.csv with fewer than 35 day-columns, the window row is the site-name, the tier, the window average, and then exactly the
\* day-columns of the row, in order; the average of a row that is not marked
\* and has a numeric day value is the rounded mean of its numeric day values.
C19_ShortHistoryWindow ==
    (WindowDone /\ wrote /\ ~agg_error) =>
        \A i \in 1..Len(FileRows(all_csv)) :
            LET row == FileRows(all_csv)[i]
                win == js_window[i]
            IN (WellFormed(row) /\ Len(DayColumns(row)) < WindowDays) =>
                   /\ win[1] = row[1]
                   /\ win[2] = row[2]
                   /\ SliceFrom(win, WindowHead) = DayColumns(row)
                   /\ (row[2] # Marker /\ Numbers(DayColumns(row)) # <<>>) =>
                          win[3] = Average(Numbers(DayColumns(row)))

\* C20: every cell a run has appended to a row of alldata.csv is the A value
\* or the B value of a sample of that run whose site name is the site-name
\* of the row.
C20_NoCrossSiteValues ==
    AggEnded =>
        \A i \in Rows :
            \A k \in 1..Growth(i) :
                \E r \in Matching(i) :
                    all_csv.rows[i][Len(pre_csv.rows[i]) + k]
                        \in {ping_results[r].ams, ping_results[r].bms}

C20_Witness ==
    /\ AggEnded
    /\ wrote
    /\ Len(ping_results) = 2
    /\ ping_results[1].sitename # ping_results[2].sitename
    /\ \E i, j \in Rows :
          /\ Growth(i) = 1
          /\ Growth(j) = 1
          /\ Matching(i) = {1}
          /\ Matching(j) = {2}
          /\ all_csv.rows[i][Len(all_csv.rows[i])] # all_csv.rows[j][Len(all_csv.rows[j])]

====
